---- MODULE Spec2Model ----
(***************************************************************************)
(* A model of the tradingview_screener query builder: the Column predicate *)
(* DSL (column.py), the And/Or combinators and the Query builder           *)
(* (query.py).                                                             *)
(*                                                                         *)
(* A Query object is its `query` attribute and its `url`.  The objects the *)
(* builder mutates in place are objects of a heap, so that the sharing     *)
(* dict.copy() creates is visible: `query` is a reference to a dict, a     *)
(* function from the keys that are present to their values, and the dict   *)
(* holds references to its 'range' list and its 'symbols' dict.  Every     *)
(* other value is replaced as a whole by the builder and is held by value. *)
(*                                                                         *)
(* Python values of dynamic type (the operands of a predicate, the         *)
(* arguments of select) are records tagged with their type.                *)
(***************************************************************************)
EXTENDS Integers, Sequences, FiniteSets, TLC

VARIABLES
    query,        \* builder -> the reference of its `query` dict
    url,          \* builder -> its `url`
    dictHeap,     \* reference -> the dict object (key -> value or reference)
    rangeHeap,    \* reference -> the 'range' list object
    symbolsHeap,  \* reference -> the 'symbols' dict object
    results,      \* the nodes And / Or returned so far, oldest first; in
                  \* SpecColumn and SpecScan, what the last call returned
    posts,        \* the requests given to requests.post so far, oldest first
    lastOp,       \* history: the call that was made last
    lastScope,    \* history: builder -> the last scope call made on it
    lastOffset,   \* history: builder -> the last offset given to it
    lastLimit,    \* history: builder -> the last limit given to it
    props,        \* history: builder -> keys given to set_property
    calls,        \* history: the number of calls made, when they are counted
    counted       \* whether the behaviour counts its calls (SpecCopy does)

vars == <<query, url, dictHeap, rangeHeap, symbolsHeap, results, posts, lastOp,
          lastScope, lastOffset, lastLimit, props, calls, counted>>

(***************************************************************************)
(* Bounds                                                                  *)
(***************************************************************************)
MaxCalls == 4       \* calls in a behaviour of SpecCopy
MaxNodes == 2       \* And / Or calls in a behaviour of SpecBool
MaxOperands == 2    \* operands of one And / Or call

(***************************************************************************)
(* Python values                                                           *)
(***************************************************************************)
PyInt(n) == [type |-> "int", v |-> n]
PyStr(s) == [type |-> "str", v |-> s]
PyNone == [type |-> "NoneType"]

\* what the caller gets of a call that raises exception e
Raised(e) == [raised |-> e]

(***************************************************************************)
(* Dict helpers                                                            *)
(***************************************************************************)
DictSet(d, key, value) ==
    [k \in DOMAIN d \cup {key} |-> IF k = key THEN value ELSE d[k]]

DictPop(d, key) == [k \in DOMAIN d \ {key} |-> d[k]]

\* d.setdefault(key, value): the dict after the call
DictSetDefault(d, key, value) ==
    IF key \in DOMAIN d THEN d ELSE DictSet(d, key, value)

\* a reference no object of heap h has
NewRef(h) == CHOOSE i \in 1..(Cardinality(DOMAIN h) + 1) : i \notin DOMAIN h

\* heap h without the objects no dict of `dicts` refers to under `key`
Collect(h, dicts, key) ==
    [i \in {dicts[r][key] : r \in {x \in DOMAIN dicts : key \in DOMAIN dicts[x]}}
        |-> h[i]]

\* the sequences over S of at most n elements
SeqsUpTo(S, n) == UNION {[1..k -> S] : k \in 0..n}

(***************************************************************************)
(* constants.py                                                            *)
(***************************************************************************)
\* URL.format(market=market), as <<host, market, "scan">>
URLFormat(market) == <<"scanner.tradingview.com", market, "scan">>

\* the alias table of field names: alias -> canonical field identifier
COLUMNS == [Price |-> "close"]

resolve(name) == IF name \in DOMAIN COLUMNS THEN COLUMNS[name] ELSE name

(***************************************************************************)
(* column.py                                                               *)
(***************************************************************************)
Column(name) == [type |-> "Column", name |-> name]

\* _extract_name without the isinstance test: the object is returned
extract_name_keeps_column(obj) == obj

extract_name(obj) == IF obj.type = "Column" THEN PyStr(obj.name) ELSE obj

Column_gt(self, other) ==
    [left |-> self.name, operation |-> "greater", right |-> extract_name(other)]

Column_lt(self, other) ==
    [left |-> self.name, operation |-> "less", right |-> extract_name(other)]

Column_eq(self, other) ==
    [left |-> self.name, operation |-> "equal", right |-> extract_name(other)]

Column_ge(self, other) ==
    [left |-> self.name, operation |-> "egreater", right |-> extract_name(other)]

Column_le(self, other) ==
    [left |-> self.name, operation |-> "eless", right |-> extract_name(other)]

Column_ne(self, other) ==
    [left |-> self.name, operation |-> "nequal", right |-> extract_name(other)]

Column_crosses(self, other) ==
    [left |-> self.name, operation |-> "crosses", right |-> extract_name(other)]

Column_crosses_above(self, other) ==
    [left |-> self.name, operation |-> "crosses_above", right |-> extract_name(other)]

Column_crosses_below(self, other) ==
    [left |-> self.name, operation |-> "crosses_below", right |-> extract_name(other)]

Column_between(self, left, right) ==
    [left |-> self.name, operation |-> "in_range",
     right |-> <<extract_name(left), extract_name(right)>>]

Column_not_between(self, left, right) ==
    [left |-> self.name, operation |-> "not_in_range",
     right |-> <<extract_name(left), extract_name(right)>>]

\* values: an iterable, as the sequence list(values) makes of it
Column_isin(self, values) ==
    [left |-> self.name, operation |-> "in_range", right |-> values]

Column_not_in(self, values) ==
    [left |-> self.name, operation |-> "not_in_range", right |-> values]

Column_has(self, values) ==
    [left |-> self.name, operation |-> "has", right |-> values]

Column_has_none_of(self, values) ==
    [left |-> self.name, operation |-> "has_none_of", right |-> values]

Column_above_pct(self, column, pct) ==
    [left |-> self.name, operation |-> "above%",
     right |-> <<extract_name(column), pct>>]

Column_below_pct(self, column, pct) ==
    [left |-> self.name, operation |-> "below%",
     right |-> <<extract_name(column), pct>>]

Column_between_pct(self, column, pct1, pct2) ==
    [left |-> self.name, operation |-> "in_range%",
     right |-> <<extract_name(column), pct1, pct2>>]

Column_not_between_pct(self, column, pct1, pct2) ==
    [left |-> self.name, operation |-> "not_in_range%",
     right |-> <<extract_name(column), pct1, pct2>>]

Column_like(self, other) ==
    [left |-> self.name, operation |-> "match", right |-> extract_name(other)]

\* the public methods of Column that return a predicate
ColumnMethods ==
    {"__gt__", "__ge__", "__lt__", "__le__", "__eq__", "__ne__", "crosses",
     "crosses_above", "crosses_below", "between", "not_between", "isin",
     "not_in", "has", "has_none_of", "above_pct", "below_pct", "between_pct",
     "not_between_pct", "like"}

\* the numbers of arguments, self apart, the signature of the method takes
Arity(method) ==
    IF method \in {"between", "not_between", "above_pct", "below_pct"} THEN {2}
    ELSE IF method \in {"between_pct", "not_between_pct"} THEN {2, 3}
    ELSE {1}

\* self.method(*args): the predicate returned, or the TypeError Python
\* raises for a call that does not fit the signature
Invoke(method, self, args) ==
    IF Len(args) \notin Arity(method) THEN Raised("TypeError")
    ELSE CASE method = "__gt__" -> Column_gt(self, args[1])
           [] method = "__ge__" -> Column_ge(self, args[1])
           [] method = "__lt__" -> Column_lt(self, args[1])
           [] method = "__le__" -> Column_le(self, args[1])
           [] method = "__eq__" -> Column_eq(self, args[1])
           [] method = "__ne__" -> Column_ne(self, args[1])
           [] method = "crosses" -> Column_crosses(self, args[1])
           [] method = "crosses_above" -> Column_crosses_above(self, args[1])
           [] method = "crosses_below" -> Column_crosses_below(self, args[1])
           [] method = "between" -> Column_between(self, args[1], args[2])
           [] method = "not_between" -> Column_not_between(self, args[1], args[2])
           [] method = "isin" -> Column_isin(self, args[1])
           [] method = "not_in" -> Column_not_in(self, args[1])
           [] method = "has" -> Column_has(self, args[1])
           [] method = "has_none_of" -> Column_has_none_of(self, args[1])
           [] method = "above_pct" -> Column_above_pct(self, args[1], args[2])
           [] method = "below_pct" -> Column_below_pct(self, args[1], args[2])
           [] method = "between_pct" ->
                Column_between_pct(self, args[1], args[2],
                                   IF Len(args) = 3 THEN args[3] ELSE PyNone)
           [] method = "not_between_pct" ->
                Column_not_between_pct(self, args[1], args[2],
                                       IF Len(args) = 3 THEN args[3] ELSE PyNone)
           [] method = "like" -> Column_like(self, args[1])

(***************************************************************************)
(* query.py: And / Or                                                      *)
(***************************************************************************)
DEFAULT_RANGE == <<0, 50>>

\* the operations FilterOperationDict declares
FilterOperations ==
    {"greater", "egreater", "less", "eless", "equal", "nequal", "in_range",
     "not_in_range", "match", "crosses", "crosses_above", "crosses_below",
     "above%", "below%", "in_range%", "has", "has_none_of"}

RECURSIVE AndOrLoop_wraps_all(_, _)
\* the loop without the test for 'left': every operand is wrapped
AndOrLoop_wraps_all(lst, es) ==
    IF es = <<>> THEN lst
    ELSE AndOrLoop_wraps_all(Append(lst, [expression |-> Head(es)]), Tail(es))

RECURSIVE AndOrLoop(_, _)
\* the for loop of _impl_and_or_chaining: lst after the expressions es
AndOrLoop(lst, es) ==
    IF es = <<>> THEN lst
    ELSE AndOrLoop(
            IF "left" \in DOMAIN Head(es)
                THEN Append(lst, [expression |-> Head(es)])
                ELSE Append(lst, Head(es)),
            Tail(es))

impl_and_or_chaining(expressions, operator) ==
    [operation |-> [operator |-> operator,
                    operands |-> AndOrLoop(<<>>, expressions)]]

And(expressions) == impl_and_or_chaining(expressions, "and")

Or(expressions) == impl_and_or_chaining(expressions, "or")

(***************************************************************************)
(* Inputs                                                                  *)
(***************************************************************************)
P1 == Column_gt(Column("close"), PyInt(5))
P2 == Column_lt(Column("volume"), Column("VWAP"))
P3 == Column_eq(Column("Price"), PyStr("stock"))

Predicates == {P1, P2, P3}

\* the Columns the caller calls a method of
ColumnSelves == {Column("close"), Column("Price")}

\* thresholds, in percent
PctArgs == {PyInt(120), PyInt(150)}

\* the arguments the caller gives to a method of Column
ColumnArgs(method) ==
    IF method \in {"between", "not_between"}
        THEN {<<x, y>> : x \in {PyInt(2), PyInt(15)}, y \in {PyInt(2), Column("EMA20")}}
    ELSE IF method \in {"isin", "not_in", "has", "has_none_of"}
        THEN {<<<<PyStr("stock"), PyStr("fund")>>>>, <<<<>>>>}
    ELSE IF method \in {"above_pct", "below_pct", "between_pct", "not_between_pct"}
        THEN {<<c, p>> : c \in {PyStr("EMA200"), Column("VWAP")}, p \in PctArgs}
             \cup {<<c, p, q>> : c \in {PyStr("EMA200")}, p \in PctArgs, q \in PctArgs}
    ELSE {<<x>> : x \in {PyInt(5), PyStr("apple"), Column("VWAP")}}

\* a response row of n values
Row(ticker, n) == [s |-> ticker, d |-> [i \in 1..n |-> PyInt(i)]]

\* what requests.post returns or raises: success with two rows of four
\* values, success with two rows of two values, a failure status, a timeout
Responses ==
    {[ok |-> TRUE, json |-> [totalCount |-> 18060,
                            data |-> <<Row("AMEX:SPY", 4), Row("NASDAQ:QQQ", 4)>>]],
     [ok |-> TRUE, json |-> [totalCount |-> 2,
                            data |-> <<Row("NASDAQ:QQQ", 2), Row("AMEX:SPY", 2)>>]],
     [ok |-> FALSE, reason |-> "Bad Request", text |-> "Unknown field"],
     Raised("ConnectTimeout")}

MarketsArgs == {<<>>, <<"italy">>, <<"italy", "america">>}
TickersArgs == {<<"NASDAQ:TSLA">>}
IndexArgs == {<<"SYML:SP;SPX">>}
SelectArgs == {<<PyStr("Price"), Column("volume")>>}
WhereArgs == {<<P1>>, <<P2, P1>>}
Where2Args == {And(<<P1, Or(<<P2, P3>>)>>)}
OrderByArgs == {<<Column("volume"), FALSE, TRUE>>}
OffsetArgs == {5, 10, -1}
LimitArgs == {15, 100, -1}
PropertyArgs == {<<"preset", "pre-market-gainers">>,
                 <<"markets", <<"italy">>>>,
                 <<"ignore_unknown_fields", TRUE>>}

(***************************************************************************)
(* query.py: Query                                                         *)
(***************************************************************************)
NoScope == [kind |-> "none", args |-> <<>>]

\* self.query of builder b
Q(b) == dictHeap[query[b]]

\* the compiled payload of builder b: its dict with the references followed
Payload(b) ==
    [k \in DOMAIN Q(b) |->
        IF k = "range" THEN rangeHeap[Q(b)[k]]
        ELSE IF k = "symbols" THEN symbolsHeap[Q(b)[k]]
        ELSE Q(b)[k]]

\* Query.__init__: the dict of a new Query whose range and symbols objects
\* are r and s
QueryInit(r, s) ==
    [markets |-> <<"america">>,
     symbols |-> s,
     options |-> [lang |-> "en"],
     columns |-> <<"name", "close", "volume", "market_cap_basic">>,
     sort |-> [sortBy |-> "Value.Traded", sortOrder |-> "desc"],
     range |-> r]

InitUrl == <<"scanner.tradingview.com", "america", "scan">>

InitSymbols == [query |-> [types |-> <<>>], tickers |-> <<>>]

\* builder 1 is a new Query(); c: whether the behaviour counts its calls
InitQuery(c) ==
    /\ query = (1 :> 1)
    /\ url = (1 :> InitUrl)
    /\ dictHeap = (1 :> QueryInit(1, 1))
    /\ rangeHeap = (1 :> DEFAULT_RANGE)
    /\ symbolsHeap = (1 :> InitSymbols)
    /\ results = <<>>
    /\ posts = <<>>
    /\ lastOp = [op |-> "init", b |-> 1, args |-> <<>>]
    /\ lastScope = (1 :> NoScope)
    /\ lastOffset = (1 :> 0)
    /\ lastLimit = (1 :> 50)
    /\ props = (1 :> {})
    /\ calls = 0
    /\ counted = c

Init == InitQuery(FALSE)

\* a call is made; a behaviour that counts its calls makes at most MaxCalls
Tick ==
    /\ counted => calls < MaxCalls
    /\ calls' = IF counted THEN calls + 1 ELSE calls
    /\ UNCHANGED counted

\* the dict of builder b becomes d
Store(b, d) ==
    /\ dictHeap' = [dictHeap EXCEPT ![query[b]] = d]
    /\ UNCHANGED query

\* set_markets taking the first market's endpoint whenever a market is given
set_markets_first_market(b, markets) ==
    /\ b \in DOMAIN query
    /\ Tick
    /\ IF Len(markets) >= 1
          THEN /\ url' = [url EXCEPT ![b] = URLFormat(markets[1])]
               /\ Store(b, DictSet(Q(b), "markets", markets))
          ELSE /\ url' = [url EXCEPT ![b] = URLFormat("global")]
               /\ Store(b, DictSet(Q(b), "markets", markets))
    /\ lastOp' = [op |-> "set_markets", b |-> b, args |-> markets]
    /\ lastScope' = [lastScope EXCEPT ![b] = [kind |-> "markets", args |-> markets]]
    /\ UNCHANGED <<rangeHeap, symbolsHeap, results, posts, lastOffset, lastLimit, props>>

set_markets(b, markets) ==
    /\ b \in DOMAIN query
    /\ Tick
    /\ IF Len(markets) = 1
          THEN /\ url' = [url EXCEPT ![b] = URLFormat(markets[1])]
               /\ Store(b, DictSet(Q(b), "markets", <<markets[1]>>))
          ELSE /\ url' = [url EXCEPT ![b] = URLFormat("global")]
               /\ Store(b, DictSet(Q(b), "markets", markets))
    /\ lastOp' = [op |-> "set_markets", b |-> b, args |-> markets]
    /\ lastScope' = [lastScope EXCEPT ![b] = [kind |-> "markets", args |-> markets]]
    /\ UNCHANGED <<rangeHeap, symbolsHeap, results, posts, lastOffset, lastLimit, props>>

\* self.query.setdefault('symbols', {})[key] = value, after the dict became d
SymbolsStore(b, d, key, value) ==
    LET ref == IF "symbols" \in DOMAIN d THEN d["symbols"] ELSE NewRef(symbolsHeap)
        old == IF "symbols" \in DOMAIN d THEN symbolsHeap[ref] ELSE <<>>
    IN  /\ Store(b, DictSetDefault(d, "symbols", ref))
        /\ symbolsHeap' = DictSet(symbolsHeap, ref, DictSet(old, key, value))

\* set_tickers without the pop of 'markets'
set_tickers_keeps_markets(b, tickers) ==
    /\ b \in DOMAIN query
    /\ Tick
    /\ SymbolsStore(b, Q(b), "tickers", tickers)
    /\ url' = [url EXCEPT ![b] = URLFormat("global")]
    /\ lastOp' = [op |-> "set_tickers", b |-> b, args |-> tickers]
    /\ lastScope' = [lastScope EXCEPT ![b] = [kind |-> "tickers", args |-> tickers]]
    /\ UNCHANGED <<rangeHeap, results, posts, lastOffset, lastLimit, props>>

set_tickers(b, tickers) ==
    /\ b \in DOMAIN query
    /\ Tick
    /\ SymbolsStore(b, DictPop(Q(b), "markets"), "tickers", tickers)
    /\ url' = [url EXCEPT ![b] = URLFormat("global")]
    /\ lastOp' = [op |-> "set_tickers", b |-> b, args |-> tickers]
    /\ lastScope' = [lastScope EXCEPT ![b] = [kind |-> "tickers", args |-> tickers]]
    /\ UNCHANGED <<rangeHeap, results, posts, lastOffset, lastLimit, props>>

set_property(b, key, value) ==
    /\ b \in DOMAIN query
    /\ Tick
    /\ Store(b, DictSet(Q(b), key, value))
    /\ lastOp' = [op |-> "set_property", b |-> b, args |-> <<key, value>>]
    /\ props' = [props EXCEPT ![b] = @ \cup {key}]
    /\ UNCHANGED <<url, rangeHeap, symbolsHeap, results, posts, lastScope, lastOffset,
                   lastLimit>>

set_index(b, indexes) ==
    /\ b \in DOMAIN query
    /\ Tick
    /\ SymbolsStore(b,
            DictSetDefault(DictPop(Q(b), "markets"),
                           "preset", "index_components_market_pages"),
            "symbolset", indexes)
    /\ url' = [url EXCEPT ![b] = URLFormat("global")]
    /\ lastOp' = [op |-> "set_index", b |-> b, args |-> indexes]
    /\ lastScope' = [lastScope EXCEPT ![b] = [kind |-> "index", args |-> indexes]]
    /\ UNCHANGED <<rangeHeap, results, posts, lastOffset, lastLimit, props>>

select(b, columns) ==
    /\ b \in DOMAIN query
    /\ Tick
    /\ Store(b, DictSet(Q(b), "columns",
            [i \in 1..Len(columns) |->
                IF columns[i].type = "Column"
                    THEN columns[i].name
                    ELSE Column(columns[i].v).name]))
    /\ lastOp' = [op |-> "select", b |-> b, args |-> columns]
    /\ UNCHANGED <<url, rangeHeap, symbolsHeap, results, posts, lastScope, lastOffset,
                   lastLimit, props>>

\* where adding the expressions to the ones already there
where_appends(b, expressions) ==
    /\ b \in DOMAIN query
    /\ Tick
    /\ Store(b, DictSet(Q(b), "filter",
            (IF "filter" \in DOMAIN Q(b) THEN Q(b)["filter"] ELSE <<>>) \o expressions))
    /\ lastOp' = [op |-> "where", b |-> b, args |-> expressions]
    /\ UNCHANGED <<url, rangeHeap, symbolsHeap, results, posts, lastScope, lastOffset,
                   lastLimit, props>>

where(b, expressions) ==
    /\ b \in DOMAIN query
    /\ Tick
    /\ Store(b, DictSet(Q(b), "filter", expressions))
    /\ lastOp' = [op |-> "where", b |-> b, args |-> expressions]
    /\ UNCHANGED <<url, rangeHeap, symbolsHeap, results, posts, lastScope, lastOffset,
                   lastLimit, props>>

\* where2 storing the node as And / Or returned it, 'operation' key included
where2_keeps_envelope(b, operation) ==
    /\ b \in DOMAIN query
    /\ Tick
    /\ Store(b, DictSet(Q(b), "filter2", operation))
    /\ lastOp' = [op |-> "where2", b |-> b, args |-> operation]
    /\ UNCHANGED <<url, rangeHeap, symbolsHeap, results, posts, lastScope, lastOffset,
                   lastLimit, props>>

where2(b, operation) ==
    /\ b \in DOMAIN query
    /\ Tick
    /\ Store(b, DictSet(Q(b), "filter2", operation["operation"]))
    /\ lastOp' = [op |-> "where2", b |-> b, args |-> operation]
    /\ UNCHANGED <<url, rangeHeap, symbolsHeap, results, posts, lastScope, lastOffset,
                   lastLimit, props>>

order_by(b, column, ascending, nulls_first) ==
    /\ b \in DOMAIN query
    /\ Tick
    /\ Store(b, DictSet(Q(b), "sort",
            [sortBy |-> IF column.type = "Column" THEN column.name ELSE column.v,
             sortOrder |-> IF ascending THEN "asc" ELSE "desc",
             nullsFirst |-> nulls_first]))
    /\ lastOp' = [op |-> "order_by", b |-> b, args |-> <<column, ascending, nulls_first>>]
    /\ UNCHANGED <<url, rangeHeap, symbolsHeap, results, posts, lastScope, lastOffset,
                   lastLimit, props>>

\* the store made into a new copy of DEFAULT_RANGE whatever the dict holds
RangeStore_from_default(b, index, value) ==
    LET d == Q(b)
        ref == IF "range" \in DOMAIN d THEN d["range"] ELSE NewRef(rangeHeap)
    IN  /\ Store(b, DictSetDefault(d, "range", ref))
        /\ rangeHeap' = DictSet(rangeHeap, ref, [DEFAULT_RANGE EXCEPT ![index] = value])

\* self.query.setdefault('range', DEFAULT_RANGE.copy())[index] = value
RangeStore(b, index, value) ==
    LET d == Q(b)
        ref == IF "range" \in DOMAIN d THEN d["range"] ELSE NewRef(rangeHeap)
        old == IF "range" \in DOMAIN d THEN rangeHeap[ref] ELSE DEFAULT_RANGE
    IN  /\ Store(b, DictSetDefault(d, "range", ref))
        /\ rangeHeap' = DictSet(rangeHeap, ref, [old EXCEPT ![index] = value])

offset(b, n) ==
    /\ b \in DOMAIN query
    /\ Tick
    /\ RangeStore(b, 1, n)
    /\ lastOp' = [op |-> "offset", b |-> b, args |-> n]
    /\ lastOffset' = [lastOffset EXCEPT ![b] = n]
    /\ UNCHANGED <<url, symbolsHeap, results, posts, lastScope, lastLimit, props>>

limit(b, n) ==
    /\ b \in DOMAIN query
    /\ Tick
    /\ RangeStore(b, 2, n)
    /\ lastOp' = [op |-> "limit", b |-> b, args |-> n]
    /\ lastLimit' = [lastLimit EXCEPT ![b] = n]
    /\ UNCHANGED <<url, symbolsHeap, results, posts, lastScope, lastOffset, props>>

\* pd.DataFrame(data=data, columns=columns), for data whose rows have one
\* length: pandas raises ValueError when it is not the number of columns
DataFrame(data, columns) ==
    IF \E i \in 1..Len(data) : Len(data[i]) # Len(columns)
        THEN Raised("ValueError")
        ELSE [columns |-> columns, data |-> data]

\* the DataFrame made with the output columns only, 'ticker' forgotten
ScanResult_no_ticker_column(r, columns) ==
    LET json_obj == r.json
        data == json_obj.data
        df == DataFrame([i \in 1..Len(data) |-> <<data[i].s>> \o data[i].d],
                        columns)
    IN  IF "raised" \in DOMAIN df THEN df
        ELSE [rows_count |-> json_obj.totalCount, df |-> df]

\* get_scanner_data from r.json() on: the tuple (rows_count, df) returned,
\* or the exception of pd.DataFrame; columns is self.query.get('columns', ())
ScanResult(r, columns) ==
    LET json_obj == r.json
        data == json_obj.data
        df == DataFrame([i \in 1..Len(data) |-> <<data[i].s>> \o data[i].d],
                        <<"ticker">> \o columns)
    IN  IF "raised" \in DOMAIN df THEN df
        ELSE [rows_count |-> json_obj.totalCount, df |-> df]

\* get_scanner_data after requests.post returned r or raised: what the
\* caller gets.  r.raise_for_status() raises HTTPError, whose message has
\* r.reason, when r.ok is false.
Respond(r, columns) ==
    IF "raised" \in DOMAIN r THEN r
    ELSE IF ~r.ok
        THEN [raised |-> "HTTPError",
              reason |-> <<r.reason, "\n Body: ", r.text, "\n">>]
        ELSE ScanResult(r, columns)

\* self.query.setdefault('range', DEFAULT_RANGE.copy())
RangeDefault(b) ==
    LET d == Q(b)
        ref == IF "range" \in DOMAIN d THEN d["range"] ELSE NewRef(rangeHeap)
    IN  /\ Store(b, DictSetDefault(d, "range", ref))
        /\ rangeHeap' = IF "range" \in DOMAIN d THEN rangeHeap
                                                ELSE DictSet(rangeHeap, ref, DEFAULT_RANGE)

\* get_scanner_data posting again when the response is not ok
get_scanner_data_retries(b, r) ==
    /\ b \in DOMAIN query
    /\ Tick
    /\ RangeDefault(b)
    /\ UNCHANGED <<url, symbolsHeap, lastScope, lastOffset, lastLimit, props>>
    /\ LET request == [url |-> url[b], json |-> Payload(b)']
       IN  posts' = IF "ok" \in DOMAIN r /\ ~r.ok
                        THEN posts \o <<request, request>>
                        ELSE Append(posts, request)
    /\ results' = <<Respond(r, IF "columns" \in DOMAIN Q(b) THEN Q(b)["columns"] ELSE <<>>)>>
    /\ lastOp' = [op |-> "get_scanner_data", b |-> b, args |-> r]

\* get_scanner_data(): requests.post(self.url, json=self.query, ...) returns
\* the response r or raises the exception r; the headers and the timeout of
\* the request are left out
get_scanner_data(b, r) ==
    /\ b \in DOMAIN query
    /\ Tick
    /\ RangeDefault(b)
    /\ UNCHANGED <<url, symbolsHeap, lastScope, lastOffset, lastLimit, props>>
    /\ posts' = Append(posts, [url |-> url[b], json |-> Payload(b)'])
    /\ results' = <<Respond(r, IF "columns" \in DOMAIN Q(b) THEN Q(b)["columns"] ELSE <<>>)>>
    /\ lastOp' = [op |-> "get_scanner_data", b |-> b, args |-> r]

\* the dicts the builders other than dst refer to
DictsWithout(dst) == [r \in {query[c] : c \in DOMAIN query \ {dst}} |-> dictHeap[r]]

\* copy without the dict.copy(): new.query = self.query
copy_shares_dict(b, dst) ==
    /\ b \in DOMAIN query
    /\ Tick
    /\ dst # b
    /\ query' = DictSet(query, dst, query[b])
    /\ dictHeap' = DictsWithout(dst)
    /\ url' = DictSet(url, dst, InitUrl)
    /\ rangeHeap' = Collect(rangeHeap, dictHeap', "range")
    /\ symbolsHeap' = Collect(symbolsHeap, dictHeap', "symbols")
    /\ lastOp' = [op |-> "copy", b |-> b, args |-> dst]
    /\ lastScope' = DictSet(lastScope, dst, lastScope[b])
    /\ lastOffset' = DictSet(lastOffset, dst, lastOffset[b])
    /\ lastLimit' = DictSet(lastLimit, dst, lastLimit[b])
    /\ props' = DictSet(props, dst, props[b])
    /\ UNCHANGED <<results, posts>>

\* new = Query(); new.query = self.query.copy(); return new.  The caller
\* binds the new builder to dst; what dst was bound to before is dropped,
\* and so are the objects Query() made for the dict it does not keep.
copy(b, dst) ==
    /\ b \in DOMAIN query
    /\ Tick
    /\ dst # b
    /\ LET ref == NewRef(DictsWithout(dst))
       IN  /\ query' = DictSet(query, dst, ref)
           /\ dictHeap' = DictSet(DictsWithout(dst), ref, Q(b))
    /\ url' = DictSet(url, dst, InitUrl)
    /\ rangeHeap' = Collect(rangeHeap, dictHeap', "range")
    /\ symbolsHeap' = Collect(symbolsHeap, dictHeap', "symbols")
    /\ lastOp' = [op |-> "copy", b |-> b, args |-> dst]
    /\ lastScope' = DictSet(lastScope, dst, lastScope[b])
    /\ lastOffset' = DictSet(lastOffset, dst, lastOffset[b])
    /\ lastLimit' = DictSet(lastLimit, dst, lastLimit[b])
    /\ props' = DictSet(props, dst, props[b])
    /\ UNCHANGED <<results, posts>>

\* the caller evaluates And(*expressions) or Or(*expressions), over
\* predicates and the nodes made before, and keeps the node
CallAndOr(f, expressions) ==
    /\ Len(results) < MaxNodes
    /\ results' = Append(results, IF f = "And" THEN And(expressions)
                                               ELSE Or(expressions))
    /\ lastOp' = [op |-> f, b |-> 0, args |-> expressions]
    /\ UNCHANGED <<query, url, posts, dictHeap, rangeHeap, symbolsHeap, lastScope,
                   lastOffset, lastLimit, props, calls, counted>>

\* the caller calls a method of a Column and keeps what it returns
CallColumn(method, self, args) ==
    /\ results' = <<Invoke(method, self, args)>>
    /\ lastOp' = [op |-> method, b |-> 0, args |-> [self |-> self, args |-> args]]
    /\ UNCHANGED <<query, url, posts, dictHeap, rangeHeap, symbolsHeap, lastScope,
                   lastOffset, lastLimit, props, calls, counted>>

\* what And / Or may be given
Operands == Predicates \cup {results[i] : i \in 1..Len(results)}

\* one call of a builder method on builder b
Call(b) ==
    \/ \E m \in MarketsArgs : set_markets(b, m)
    \/ \E t \in TickersArgs : set_tickers(b, t)
    \/ \E i \in IndexArgs : set_index(b, i)
    \/ \E p \in PropertyArgs : set_property(b, p[1], p[2])
    \/ \E c \in SelectArgs : select(b, c)
    \/ \E e \in WhereArgs : where(b, e)
    \/ \E o \in Where2Args : where2(b, o)
    \/ \E o \in OrderByArgs : order_by(b, o[1], o[2], o[3])
    \/ \E n \in OffsetArgs : offset(b, n)
    \/ \E n \in LimitArgs : limit(b, n)

(***************************************************************************)
(* Spec: the calls of one builder.                                         *)
(***************************************************************************)
Next == Call(1)

Spec == Init /\ [][Next]_vars

(***************************************************************************)
(* SpecCopy: a builder, its copy, and at most MaxCalls calls of the two.   *)
(***************************************************************************)
InitCopy == InitQuery(TRUE)

NextCopy ==
    \/ copy(1, 2)
    \/ \E b \in DOMAIN query : Call(b)

SpecCopy == InitCopy /\ [][NextCopy]_vars

(***************************************************************************)
(* SpecBool: the caller builds at most MaxNodes nodes with And and Or, of  *)
(* at most MaxOperands operands each, and gives them to where2.            *)
(***************************************************************************)
NextBool ==
    \/ \E es \in SeqsUpTo(Operands, MaxOperands) : CallAndOr("And", es)
    \/ \E es \in SeqsUpTo(Operands, MaxOperands) : CallAndOr("Or", es)
    \/ \E i \in 1..Len(results) : where2(1, results[i])

SpecBool == Init /\ [][NextBool]_vars

(***************************************************************************)
(* SpecScan: at most MaxCalls calls of one builder, get_scanner_data       *)
(* among them.                                                             *)
(***************************************************************************)
NextScan ==
    \/ Call(1)
    \/ \E r \in Responses : get_scanner_data(1, r)

SpecScan == InitCopy /\ [][NextScan]_vars

(***************************************************************************)
(* SpecColumn: the caller calls the methods of Column.                     *)
(***************************************************************************)
NextColumn ==
    \E method \in ColumnMethods, self \in ColumnSelves :
        \E args \in ColumnArgs(method) : CallColumn(method, self, args)

SpecColumn == Init /\ [][NextColumn]_vars

(***************************************************************************)
(* Properties                                                              *)
(***************************************************************************)

\* C1: scope selection is mutually exclusive: the payload carries only the
\* scope data of the most recent scope call.  After set_tickers there is no
\* 'symbolset' and no 'preset'; after set_index there is no tickers list set
\* before; after set_markets there is none of the three.  (Builders on which
\* set_property set 'preset' are left out.)
C1_ScopeExclusive ==
    "preset" \notin props[1] =>
        LET p == Payload(1)
            kind == lastScope[1].kind
        IN  /\ kind \in {"tickers", "markets"} =>
                /\ "symbolset" \notin DOMAIN p["symbols"]
                /\ "preset" \notin DOMAIN p
            /\ kind \in {"index", "markets"} =>
                \/ "tickers" \notin DOMAIN p["symbols"]
                \/ p["symbols"]["tickers"] = <<>>

\* the endpoint the last scope call asks for
ExpectedUrl(scope) ==
    IF scope.kind = "none" THEN URLFormat("america")
    ELSE IF scope.kind = "markets" /\ Len(scope.args) = 1
        THEN URLFormat(scope.args[1])
        ELSE URLFormat("global")

\* C2: the URL of a builder is the endpoint of market m when the last scope
\* call on it was set_markets(m) with exactly one argument, the 'america'
\* endpoint when no scope call was made, and the 'global' endpoint when the
\* last scope call was set_markets with zero or several arguments,
\* set_tickers or set_index; the other builder calls do not change it.
C2_EndpointRouting == url[1] = ExpectedUrl(lastScope[1])

\* set_index, then set_markets('italy'), then other calls: the italy endpoint
C2_Witness ==
    /\ lastScope[1] = [kind |-> "markets", args |-> <<"italy">>]
    /\ "symbolset" \in DOMAIN Payload(1)["symbols"]
    /\ lastOp.op = "limit"
    /\ url[1] = URLFormat("italy")

\* C3: when the last scope call on a builder was set_tickers or set_index
\* (and set_property did not set 'markets'), its payload has no 'markets' key.
C3_NoMarketsKey ==
    (lastScope[1].kind \in {"tickers", "index"} /\ "markets" \notin props[1])
        => "markets" \notin DOMAIN Payload(1)

\* set_tickers, then select: no 'markets' key
C3_Witness ==
    /\ lastScope[1].kind = "tickers"
    /\ lastOp.op = "select"
    /\ props[1] = {}
    /\ "markets" \notin DOMAIN Payload(1)

\* C4: q.copy() has the payload of q and the URL of q, so q.copy() == q.
C4_CopyEqual ==
    lastOp.op = "copy" => (Payload(2) = Payload(1) /\ url[2] = url[1])

\* a call was made on a builder other than b while the copy exists
OtherCalled(b) ==
    /\ 2 \in DOMAIN query
    /\ lastOp'.op # "copy"
    /\ lastOp'.b # b

\* C5 as claimed: a call on the copy leaves the value compiled for every
\* top-level key of the original's payload unchanged, 'range' and 'symbols'
\* included, and the same for a call on the original and the copy's payload.
C5_CopyIndependent ==
    [][\A b \in DOMAIN query : OtherCalled(b) => Payload(b)' = Payload(b)]_vars

\* C5 as amended: a call on the copy leaves the keys of the original's
\* payload and the value of every key other than 'range' and 'symbols'
\* unchanged; 'range' is changed by no call of the copy but offset and
\* limit, 'symbols' by none but set_tickers and set_index; and the same for
\* a call on the original and the copy's payload.
C5_CopyIndependentKeys ==
    [][\A b \in DOMAIN query : OtherCalled(b) =>
        /\ DOMAIN Payload(b)' = DOMAIN Payload(b)
        /\ \A k \in DOMAIN Payload(b) \ {"range", "symbols"} :
                Payload(b)'[k] = Payload(b)[k]
        /\ lastOp'.op \notin {"offset", "limit"} =>
                Payload(b)'["range"] = Payload(b)["range"]
        /\ lastOp'.op \notin {"set_tickers", "set_index"} =>
                Payload(b)'["symbols"] = Payload(b)["symbols"]]_vars

\* offset was called on the copy and the original's range has the offset,
\* which was never given to the original
C5_Witness ==
    /\ 2 \in DOMAIN query
    /\ lastOp.op = "offset"
    /\ lastOp.b = 2
    /\ lastOffset[1] # lastOp.args
    /\ Payload(1)["range"][1] = lastOp.args
    /\ "filter" \in DOMAIN Payload(2)
    /\ "filter" \notin DOMAIN Payload(1)

\* C6: the compiled range of a builder is [the last offset given to it, or
\* 0; the last limit given to it, or 50], for any order and repetition of
\* offset and limit calls.
C6_RangeBounds == Payload(1)["range"] = <<lastOffset[1], lastLimit[1]>>

\* offset(5) then limit(15): [5, 15]
C6_Witness ==
    /\ lastOp.op = "limit"
    /\ lastOp.args = 15
    /\ Payload(1)["range"] = <<5, 15>>

\* the slot of key k in the payload of builder b: empty when k is absent
Slot(b, k) == IF k \in DOMAIN Payload(b) THEN <<Payload(b)[k]>> ELSE <<>>

\* C7: a new builder has neither 'filter' nor 'filter2'; where sets 'filter'
\* to the predicates given, in order, and leaves 'filter2' as it is; where2
\* sets 'filter2' to the node given and leaves 'filter' as it is; no other
\* call changes either.
C7_FilterSlots ==
    /\ Slot(1, "filter") = <<>>
    /\ Slot(1, "filter2") = <<>>
    /\ [][/\ lastOp'.op = "where" =>
                /\ Slot(1, "filter")' = <<lastOp'.args>>
                /\ Slot(1, "filter2")' = Slot(1, "filter2")
          /\ lastOp'.op = "where2" =>
                /\ Slot(1, "filter2")' = <<lastOp'.args["operation"]>>
                /\ Slot(1, "filter")' = Slot(1, "filter")
          /\ lastOp'.op \notin {"where", "where2"} =>
                /\ Slot(1, "filter")' = Slot(1, "filter")
                /\ Slot(1, "filter2")' = Slot(1, "filter2")]_vars

\* where([P1]) on a builder that has a 'filter2': 'filter' is [P1]
C7_Witness ==
    /\ lastOp.op = "where"
    /\ lastOp.args = <<P1>>
    /\ "filter2" \in DOMAIN Payload(1)
    /\ Payload(1)["filter"] = <<P1>>

\* C8: And / Or over any sequence of operands returns one node, under the
\* key 'operation', whose operator is 'and' resp. 'or' and whose operands
\* are the inputs in caller order, every predicate (an operand with a 'left'
\* key) wrapped as {expression: predicate} and every node passed through as
\* it is, nodes of the same operator included.
C8_AndOrOperands ==
    lastOp.op \in {"And", "Or"} =>
        LET node == results[Len(results)]
            es == lastOp.args
            operands == node["operation"]["operands"]
        IN  /\ DOMAIN node = {"operation"}
            /\ node["operation"]["operator"] = (IF lastOp.op = "And" THEN "and" ELSE "or")
            /\ Len(operands) = Len(es)
            /\ \A i \in 1..Len(es) :
                    operands[i] = IF "left" \in DOMAIN es[i]
                                      THEN [expression |-> es[i]]
                                      ELSE es[i]

\* And(predicate, node of And with two operands)
C8_Witness ==
    /\ lastOp.op = "And"
    /\ Len(lastOp.args) = 2
    /\ "left" \in DOMAIN lastOp.args[1]
    /\ "left" \notin DOMAIN lastOp.args[2]
    /\ lastOp.args[2]["operation"]["operator"] = "and"
    /\ Len(lastOp.args[2]["operation"]["operands"]) = 2
    /\ Len(results[Len(results)]["operation"]["operands"]) = 2

\* C9 as claimed: where2(And(p1, Or(p2, p3))) stores as 'filter2' a node
\* whose nested Or operand is itself directly an {operator, operands} mapping.
C9_NestedDirect ==
    (lastOp.op = "where2" /\ lastOp.args = And(<<P1, Or(<<P2, P3>>)>>)) =>
        Payload(1)["filter2"] =
            [operator |-> "and",
             operands |-> <<[expression |-> P1],
                            [operator |-> "or",
                             operands |-> <<[expression |-> P2],
                                            [expression |-> P3]>>]>>]

RECURSIVE NodeShape(_)
\* n is {operator, operands} and each operand is {expression: predicate} or
\* {operation: n'} with n' of this shape
NodeShape(n) ==
    /\ DOMAIN n = {"operator", "operands"}
    /\ n["operator"] \in {"and", "or"}
    /\ \A i \in 1..Len(n["operands"]) :
            LET o == n["operands"][i]
            IN  \/ DOMAIN o = {"expression"} /\ "left" \in DOMAIN o["expression"]
                \/ DOMAIN o = {"operation"} /\ NodeShape(o["operation"])

\* C9 as amended: where2 stores as 'filter2' the {operator, operands} mapping
\* of the node, in which a nested node is an operand {operation: {operator,
\* operands}} at every depth: where2(And(p1, Or(p2, p3))) stores
\* {operator:'and', operands:[{expression:p1}, {operation:{operator:'or',
\* operands:[{expression:p2},{expression:p3}]}}]}.
C9_NestedEnvelope ==
    lastOp.op = "where2" =>
        /\ NodeShape(Payload(1)["filter2"])
        /\ lastOp.args = And(<<P1, Or(<<P2, P3>>)>>) =>
                Payload(1)["filter2"] =
                    [operator |-> "and",
                     operands |-> <<[expression |-> P1],
                                    [operation |->
                                        [operator |-> "or",
                                         operands |-> <<[expression |-> P2],
                                                        [expression |-> P3]>>]]>>]

\* where2 was given an 'and' node of a predicate and an 'or' node
C9_Witness ==
    /\ lastOp.op = "where2"
    /\ "filter2" \in DOMAIN Payload(1)
    /\ Payload(1)["filter2"]["operator"] = "and"
    /\ Len(Payload(1)["filter2"]["operands"]) = 2
    /\ "expression" \in DOMAIN Payload(1)["filter2"]["operands"][1]
    /\ "operation" \in DOMAIN Payload(1)["filter2"]["operands"][2]
    /\ Payload(1)["filter2"]["operands"][2]["operation"]["operator"] = "or"

\* C10: select stores resolve(name) in 'columns' for each string argument:
\* the canonical field identifier when name is an alias, name otherwise.
C10_SelectResolves ==
    lastOp.op = "select" =>
        \A i \in 1..Len(lastOp.args) :
            lastOp.args[i].type = "str" =>
                Payload(1)["columns"][i] = resolve(lastOp.args[i].v)

\* the operand x as a predicate carries it: the name of a Column, else x
OperandName(x) == IF x.type = "Column" THEN PyStr(x.name) ELSE x

\* a method of Column was called last: what it returned, its self, its args
Returned == results[1]
CalledSelf == lastOp.args.self
CalledArgs == lastOp.args.args

\* C11: above_pct(col, p1, p2) and below_pct(col, p1, p2) with a truthy p2
\* return the predicate of operation 'in_range%' with right == [col,
\* min(p1, p2), max(p1, p2)], and every predicate of operation 'in_range%'
\* a method of Column returns has its two thresholds in ascending order.
C11_PctSorted ==
    lastOp.op \in ColumnMethods =>
        /\ (/\ lastOp.op \in {"above_pct", "below_pct"}
            /\ Len(CalledArgs) = 3
            /\ CalledArgs[3].v # 0) =>
                LET p1 == CalledArgs[2]
                    p2 == CalledArgs[3]
                IN  Returned =
                        [left |-> CalledSelf.name,
                         operation |-> "in_range%",
                         right |-> <<OperandName(CalledArgs[1]),
                                     IF p1.v <= p2.v THEN p1 ELSE p2,
                                     IF p1.v <= p2.v THEN p2 ELSE p1>>]
        /\ (/\ "left" \in DOMAIN Returned
            /\ Returned.operation = "in_range%"
            /\ Returned.right[3].type = "int") =>
                Returned.right[2].v <= Returned.right[3].v

\* the operation code of the spec's table for each operator
TableOperation ==
    ("__gt__" :> "greater") @@ ("__ge__" :> "egreater") @@ ("__lt__" :> "less")
    @@ ("__le__" :> "eless") @@ ("__eq__" :> "equal") @@ ("__ne__" :> "nequal")
    @@ ("crosses" :> "crosses") @@ ("crosses_above" :> "crosses_above")
    @@ ("crosses_below" :> "crosses_below") @@ ("like" :> "match")
    @@ ("between" :> "in_range") @@ ("isin" :> "in_range")
    @@ ("not_between" :> "not_in_range") @@ ("not_in" :> "not_in_range")
    @@ ("has" :> "has") @@ ("has_none_of" :> "has_none_of")
    @@ ("above_pct" :> "above%") @@ ("below_pct" :> "below%")

\* the right operand of the spec's table for a call of method with args
TableRight(method, args) ==
    IF method \in {"between", "not_between", "above_pct", "below_pct"}
        THEN <<OperandName(args[1]), OperandName(args[2])>>
    ELSE IF method \in {"isin", "not_in", "has", "has_none_of"}
        THEN args[1]
    ELSE OperandName(args[1])

\* C12: each operator of the spec's table, called with the arguments of its
\* signature, returns the predicate whose left is the Column's own name,
\* whose operation is the code of the table and whose right is the operand
\* with a Column operand replaced by its name: the two operands of between
\* and not_between in caller order, [col, p1] for above_pct and below_pct
\* with one threshold, the list of values for isin, not_in, has, has_none_of.
C12_OperatorTable ==
    (lastOp.op \in DOMAIN TableOperation /\ Len(CalledArgs) \in Arity(lastOp.op)) =>
        Returned = [left |-> CalledSelf.name,
                    operation |-> TableOperation[lastOp.op],
                    right |-> TableRight(lastOp.op, CalledArgs)]

\* between(15, 2): right is [15, 2], not sorted
C12_Witness ==
    /\ lastOp.op = "between"
    /\ CalledArgs = <<PyInt(15), PyInt(2)>>
    /\ Returned.right = <<PyInt(15), PyInt(2)>>

\* C16: every predicate a public method of Column returns has an operation
\* of the enumeration declared for filter operations.
C16_OperationInEnum ==
    (lastOp.op \in ColumnMethods /\ "left" \in DOMAIN Returned) =>
        Returned.operation \in FilterOperations

\* the response was received and its status is not a success
Failed(r) == "ok" \in DOMAIN r /\ ~r.ok

\* C13: each call of get_scanner_data gives exactly one request to
\* requests.post, of the builder's url, and no other call gives any; when the
\* response has a non-success status the call raises an error whose reason
\* has the response body, and returns no (count, rows) result.
C13_FailureRaisesOnce ==
    [][/\ lastOp'.op = "get_scanner_data" =>
            /\ Len(posts') = Len(posts) + 1
            /\ posts'[Len(posts')].url = url[lastOp'.b]
            /\ Failed(lastOp'.args) =>
                    /\ DOMAIN results'[1] = {"raised", "reason"}
                    /\ results'[1].raised = "HTTPError"
                    /\ \E i \in 1..Len(results'[1].reason) :
                            results'[1].reason[i] = lastOp'.args.text
       /\ lastOp'.op # "get_scanner_data" => posts' = posts]_vars

\* get_scanner_data called twice, the second response a failure: two posts
C13_Witness ==
    /\ lastOp.op = "get_scanner_data"
    /\ Failed(lastOp.args)
    /\ Len(posts) = 2
    /\ "raised" \in DOMAIN results[1]

\* the response was received, is a success, and each of its rows has as
\* many values as builder b has output columns
Matching(r, b) ==
    /\ "ok" \in DOMAIN r
    /\ r.ok
    /\ \A j \in 1..Len(r.json.data) :
            Len(r.json.data[j].d) = Len(Payload(b)["columns"])

\* C14: on a successful response whose rows each have len(columns) values,
\* get_scanner_data returns totalCount and one record per response row, in
\* response order, with the fields 'ticker' and then the output columns in
\* their stored order, the ticker being the row's 's' and the value of the
\* i-th column the i-th entry of the row's 'd'.
C14_RowsReconstructed ==
    (lastOp.op = "get_scanner_data" /\ Matching(lastOp.args, lastOp.b)) =>
        LET ret == results[1]
            rows == lastOp.args.json.data
            columns == Payload(lastOp.b)["columns"]
        IN  /\ DOMAIN ret = {"rows_count", "df"}
            /\ ret.rows_count = lastOp.args.json.totalCount
            /\ Len(ret.df.data) = Len(rows)
            /\ Len(ret.df.columns) = Len(columns) + 1
            /\ ret.df.columns[1] = "ticker"
            /\ \A i \in 1..Len(columns) : ret.df.columns[i + 1] = columns[i]
            /\ \A j \in 1..Len(rows) :
                    /\ Len(ret.df.data[j]) = Len(columns) + 1
                    /\ ret.df.data[j][1] = rows[j].s
                    /\ \A i \in 1..Len(columns) :
                            ret.df.data[j][i + 1] = rows[j].d[i]

\* select of two columns, then a response with two rows of two values
C14_Witness ==
    /\ lastOp.op = "get_scanner_data"
    /\ Matching(lastOp.args, 1)
    /\ Payload(1)["columns"] = <<"Price", "volume">>
    /\ Len(results[1].df.data) = 2
    /\ results[1].df.data[1][1] = "NASDAQ:QQQ"

\* C15: after set_index(...) the payload has preset ==
\* 'index_components_market_pages' and symbols.symbolset equal to the
\* indexes given, in order, also when set_property('preset', other) was
\* called before.
C15_IndexPreset ==
    lastOp.op = "set_index" =>
        /\ "preset" \in DOMAIN Payload(1)
        /\ Payload(1)["preset"] = "index_components_market_pages"
        /\ Payload(1)["symbols"]["symbolset"] = lastOp.args

\* C17: the compiled range of a builder has offset >= 0 and limit >= 0,
\* whatever offset and limit calls were made.
C17_RangeNonNegative ==
    /\ Payload(1)["range"][1] >= 0
    /\ Payload(1)["range"][2] >= 0

====
